---- MODULE Spec2Model ----
(***************************************************************************)
(* The cafe-orders Apriori application (src/app.py): the transaction       *)
(* encoder, the level-wise frequent-itemset miner and the association-rule *)
(* generator that the script calls, and the Streamlit script run around    *)
(* them (cached data load, two sliders, one full recomputation per run).   *)
(*                                                                         *)
(* Items are numbered 1..NItems in their sorted (lexicographic) order.     *)
(* A threshold is held in hundredths (50 stands for 0.5).  A support is    *)
(* the pair <<count, rows>> standing for the ratio count / rows.           *)
(***************************************************************************)
EXTENDS Integers, Sequences, FiniteSets

VARIABLES
    csv,             \* rows of cafe_order_dataset.csv: [key, coffee_name]
    cache,           \* st.cache_data entry of load_data: <<>> or <<df>>
    widget_support,  \* position of the "Minimum Support" slider
    widget_confidence, \* position of the "Minimum Confidence" slider
    transactions,    \* list of item lists handed to the encoder
    min_support,     \* threshold handed to apriori
    min_confidence,  \* threshold handed to association_rules
    columns_,        \* te.columns_: the sorted universe
    encoded_data,    \* boolean matrix, one row per transaction
    itemset_dict,    \* apriori: level k -> set of column-index tuples
    support_dict,    \* apriori: level k -> [tuple -> count of rows]
    max_itemset,     \* apriori: last level with a frequent itemset
    frequent_items,  \* result of apriori: set of [itemsets, support]
    rules,           \* result of association_rules: set of rule rows
    error,           \* exception that ended the run, or "none"
    pc               \* position of the script run

vars == <<csv, cache, widget_support, widget_confidence, transactions,
          min_support, min_confidence, columns_, encoded_data, itemset_dict,
          support_dict, max_itemset, frequent_items, rules, error, pc>>

(***************************************************************************)
(* Bounds of the model.                                                    *)
(***************************************************************************)
NItems == 3
MaxTx == 3
MaxCells == 4

Items == 1..NItems

Range(s) == {s[i] : i \in DOMAIN s}

SeqsUpTo(S, n) == UNION {[1..m -> S] : m \in 0..n}

\* Number of item occurrences in a transaction list.
RECURSIVE Cells(_)
Cells(X) == IF X = <<>> THEN 0 ELSE Len(Head(X)) + Cells(Tail(X))

\* min_support arguments: outside (0,1] (0 and 150), and inside it 50 and 100,
\* which supports 1/2, 2/4 and n/n tie with.
SupportInputs == {0, 50, 100, 150}

\* min_threshold arguments of association_rules: confidences 1/2 and 1 tie
\* with them.
ConfidenceInputs == {50, 100}

(***************************************************************************)
(* TransactionEncoder                                                      *)
(***************************************************************************)
\* Python's sorted() over a set of items.
RECURSIVE sorted(_)
sorted(S) ==
    IF S = {} THEN <<>>
    ELSE LET m == CHOOSE x \in S : \A y \in S : x <= y
         IN  <<m>> \o sorted(S \ {m})

\* Mutant of fit: the items are listed as they come, neither collected into
\* a set nor sorted.
RECURSIVE fit_as_listed(_)
fit_as_listed(X) ==
    IF X = <<>> THEN <<>> ELSE Head(X) \o fit_as_listed(Tail(X))

\* TransactionEncoder.fit: collect the distinct items, sort them.
fit(X) ==
    LET unique_items == UNION {Range(X[t]) : t \in DOMAIN X}
    IN  sorted(unique_items)

\* columns_mapping_: item -> column index.
columns_mapping(cols) ==
    [item \in Range(cols) |-> CHOOSE i \in DOMAIN cols : cols[i] = item]

\* TransactionEncoder.transform: a zero matrix in which the cell of every
\* item occurrence is set to True.
transform(X, cols) ==
    LET mapping == columns_mapping(cols)
    IN  [r \in DOMAIN X |->
            [c \in DOMAIN cols |->
                \E j \in DOMAIN X[r] : mapping[X[r][j]] = c]]

(***************************************************************************)
(* apriori                                                                 *)
(***************************************************************************)
\* Mutant of RowCount: np.any in place of np.all.
RowCountAny(X, combin) ==
    Cardinality({r \in DOMAIN X : \E i \in DOMAIN combin : X[r][combin[i]]})

\* Number of rows of the matrix in which every column of combin is True
\* (np.all(X[:, combin], axis=2) summed over the rows).
RowCount(X, combin) ==
    Cardinality({r \in DOMAIN X : \A i \in DOMAIN combin : X[r][combin[i]]})

\* Mutant of SupportAtLeast: a strict comparison.
SupportAbove(count, rows, minsup) == count * 100 > minsup * rows

\* support >= min_support, with support = count / rows and min_support in
\* hundredths.  (The float comparison agrees with the exact one here: the
\* quotient is correctly rounded and the thresholds are 2-digit decimals.)
SupportAtLeast(count, rows, minsup) == count * 100 >= minsup * rows

\* Level 1: every single column whose support meets the threshold.
FirstLevel(X, ncols, minsup) ==
    {<<c>> : c \in {c \in 1..ncols :
                      SupportAtLeast(RowCount(X, <<c>>), Len(X), minsup)}}

\* Mutant of generate_new_combinations: items not below the last item are
\* appended, the last item itself included.
generate_with_last(old_combinations) ==
    LET items_types_in_previous_step ==
            UNION {Range(c) : c \in old_combinations}
    IN  UNION {{Append(old, item) :
                  item \in {i \in items_types_in_previous_step :
                              i >= old[Len(old)]}} :
               old \in old_combinations}

\* generate_new_combinations: every old combination extended by every item
\* of the previous level that is greater than its last item.
generate_new_combinations(old_combinations) ==
    LET items_types_in_previous_step ==
            UNION {Range(c) : c \in old_combinations}
    IN  UNION {{Append(old, item) :
                  item \in {i \in items_types_in_previous_step :
                              i > old[Len(old)]}} :
               old \in old_combinations}

\* The candidates of the next level that pass the support mask.
Masked(X, combin, minsup) ==
    {c \in combin : SupportAtLeast(RowCount(X, c), Len(X), minsup)}

Counts(X, combos) == [c \in combos |-> RowCount(X, c)]

\* Mutant of ResultFrame: the rows of level 1 are left out.
ResultFrameFromLevel2(idict, sdict, cols, rows) ==
    UNION {{[itemsets |-> {cols[c[i]] : i \in DOMAIN c},
             support  |-> <<sdict[k][c], rows>>] : c \in idict[k]} :
           k \in (DOMAIN idict) \ {1}}

\* The returned DataFrame (use_colnames=True): one row per itemset of every
\* level, the column indices mapped back to the column names.
ResultFrame(idict, sdict, cols, rows) ==
    UNION {{[itemsets |-> {cols[c[i]] : i \in DOMAIN c},
             support  |-> <<sdict[k][c], rows>>] : c \in idict[k]} :
           k \in DOMAIN idict}

(***************************************************************************)
(* association_rules                                                       *)
(***************************************************************************)
\* The triples <<rows, count(A), count(I)>> with rows <= 16 for which the
\* binary64 quotient (count(I)/rows) / (count(A)/rows) lies one ulp below
\* the exact ratio count(I)/count(A) while that ratio is a 2-digit decimal:
\* there the comparison with a threshold equal to the ratio is False.
QuotientRoundsDown ==
    { <<5,4,3>>, <<6,5,1>>, <<6,5,2>>, <<6,5,4>>, <<7,5,1>>, <<7,5,2>>,
      <<7,5,4>>, <<9,5,1>>, <<9,5,2>>, <<9,5,4>>, <<10,4,3>>, <<10,8,6>>,
      <<11,4,3>>, <<11,8,6>>, <<12,5,1>>, <<12,5,2>>, <<12,5,4>>,
      <<12,10,1>>, <<12,10,2>>, <<12,10,4>>, <<12,10,8>>, <<12,10,9>>,
      <<13,10,9>>, <<13,12,9>>, <<14,5,1>>, <<14,5,2>>, <<14,5,4>>,
      <<14,10,1>>, <<14,10,2>>, <<14,10,4>>, <<14,10,8>>, <<15,12,9>> }

\* metric_dict["confidence"](sAC, sA, sC) >= min_threshold, the score being
\* the float sAC / sA (nan for 0 / 0, and nan >= threshold is False).
ScoreAtLeast(sAC, sA, threshold) ==
    /\ sA[1] # 0
    /\ IF sAC[1] * 100 = threshold * sA[1]
       THEN <<sA[2], sA[1], sAC[1]>> \notin QuotientRoundsDown
       ELSE sAC[1] * 100 > threshold * sA[1]

\* frequent_items_dict: itemset -> support.
FrequentDict(df) ==
    [k \in {row.itemsets : row \in df} |->
        (CHOOSE row \in df : row.itemsets = k).support]

\* combinations(k, r=idx) for idx = len(k)-1 .. 1.
Antecedents(k) == (SUBSET k) \ {{}, k}

\* The lookups frequent_items_dict[antecedent] / [consequent] that raise
\* KeyError.
MissingKey(df) ==
    LET d == FrequentDict(df)
    IN  \E k \in DOMAIN d : \E a \in Antecedents(k) :
            a \notin DOMAIN d \/ (k \ a) \notin DOMAIN d

\* The rows collected in rule_antecedents, rule_consequents, rule_supports.
RuleRows(df, threshold) ==
    LET d == FrequentDict(df)
    IN  UNION {{[antecedents |-> a, consequents |-> k \ a, support |-> d[k],
                 antecedent_support |-> d[a],
                 consequent_support |-> d[k \ a]] :
                  a \in {a \in Antecedents(k) :
                           ScoreAtLeast(d[k], d[a], threshold)}} :
               k \in DOMAIN d}

(***************************************************************************)
(* The steps of one pass through lines 47-63 of the script.                *)
(***************************************************************************)
appVars == <<csv, cache, widget_support, widget_confidence>>

\* The variables of a script run before any line has assigned them.
Blank ==
    /\ columns_ = <<>>
    /\ encoded_data = <<>>
    /\ itemset_dict = <<>>
    /\ support_dict = <<>>
    /\ max_itemset = 0
    /\ frequent_items = {}
    /\ rules = {}
    /\ error = "none"

\* te.fit(transactions).transform(transactions)
Encode ==
    /\ pc = "encode"
    /\ columns_' = fit(transactions)
    /\ encoded_data' = transform(transactions, columns_')
    /\ pc' = "apriori"
    /\ UNCHANGED <<transactions, min_support, min_confidence, itemset_dict,
                   support_dict, max_itemset, frequent_items, rules, error>>

\* apriori(encoded_df, min_support=s, use_colnames=True), up to the loop:
\* the argument check (only min_support <= 0 is rejected) and level 1.
Apriori(s) ==
    /\ pc = "apriori"
    /\ min_support' = s
    /\ IF s <= 0
       THEN /\ error' = "ValueError: min_support"
            /\ pc' = "error"
            /\ UNCHANGED <<itemset_dict, support_dict, max_itemset>>
       ELSE /\ LET l1 == FirstLevel(encoded_data, Len(columns_), s)
               IN  /\ itemset_dict' = <<l1>>
                   /\ support_dict' = <<Counts(encoded_data, l1)>>
            /\ max_itemset' = 1
            /\ pc' = "level"
            /\ UNCHANGED error
    /\ UNCHANGED <<transactions, min_confidence, columns_, encoded_data,
                   frequent_items, rules>>

\* One pass of the while loop that finds frequent itemsets of the next size.
AprioriLevel ==
    /\ pc = "level"
    /\ LET combin == generate_new_combinations(itemset_dict[max_itemset])
           kept   == Masked(encoded_data, combin, min_support)
       IN  /\ kept # {}
           /\ itemset_dict' = Append(itemset_dict, kept)
           /\ support_dict' = Append(support_dict, Counts(encoded_data, kept))
    /\ max_itemset' = max_itemset + 1
    /\ UNCHANGED <<transactions, min_support, min_confidence, columns_,
                   encoded_data, frequent_items, rules, error, pc>>

\* The pass that leaves the loop (no candidate, or none frequent), and the
\* construction of the returned DataFrame.
AprioriReturn ==
    /\ pc = "level"
    /\ LET combin == generate_new_combinations(itemset_dict[max_itemset])
       IN  Masked(encoded_data, combin, min_support) = {}
    /\ frequent_items' = ResultFrame(itemset_dict, support_dict, columns_,
                                     Len(encoded_data))
    /\ pc' = "rules"
    /\ UNCHANGED <<transactions, min_support, min_confidence, columns_,
                   encoded_data, itemset_dict, support_dict, max_itemset,
                   rules, error>>

\* association_rules(frequent_items, metric="confidence", min_threshold=t):
\* an empty frame raises ValueError, a failed support lookup KeyError.
AssociationRules(t) ==
    /\ pc = "rules"
    /\ min_confidence' = t
    /\ IF frequent_items = {}
       THEN /\ error' = "ValueError: empty frame"
            /\ pc' = "error"
            /\ UNCHANGED rules
       ELSE IF MissingKey(frequent_items)
       THEN /\ error' = "KeyError"
            /\ pc' = "error"
            /\ UNCHANGED rules
       ELSE /\ rules' = RuleRows(frequent_items, t)
            /\ pc' = "done"
            /\ UNCHANGED error
    /\ UNCHANGED <<transactions, min_support, columns_, encoded_data,
                   itemset_dict, support_dict, max_itemset, frequent_items>>

(***************************************************************************)
(* The core pipeline encode -> mine -> generate rules, called on any       *)
(* transaction list with arguments of the caller's choice.                 *)
(***************************************************************************)
Init ==
    /\ csv = <<>>
    /\ cache = <<>>
    /\ widget_support = 0
    /\ widget_confidence = 0
    /\ transactions = <<>>
    /\ min_support = 0
    /\ min_confidence = 0
    /\ Blank
    /\ pc = "encode"

\* The caller collects one more transaction: at most MaxTx transactions with
\* at most MaxCells item occurrences in all; items may repeat inside a
\* transaction, in any order, and a transaction may be empty.
AddTransaction ==
    /\ pc = "encode"
    /\ Len(transactions) < MaxTx
    /\ \E t \in SeqsUpTo(Items, MaxCells - Cells(transactions)) :
          transactions' = Append(transactions, t)
    /\ UNCHANGED <<appVars, min_support, min_confidence, columns_,
                   encoded_data, itemset_dict, support_dict, max_itemset,
                   frequent_items, rules, error, pc>>

EncodeStep == Encode /\ UNCHANGED appVars
Mine == \E s \in SupportInputs : Apriori(s) /\ UNCHANGED appVars
MineLevel == AprioriLevel /\ UNCHANGED appVars
MineReturn == AprioriReturn /\ UNCHANGED appVars
GenerateRules ==
    \E t \in ConfidenceInputs : AssociationRules(t) /\ UNCHANGED appVars

Next ==
    \/ AddTransaction
    \/ EncodeStep
    \/ Mine
    \/ MineLevel
    \/ MineReturn
    \/ GenerateRules

Spec == Init /\ [][Next]_vars

\* The miner alone: encode, then apriori up to its return or its exception.
\* Single-threaded and synchronous: a call that has been made runs on.
\* apriori reads the encoded matrix only, and a row of it records which items
\* a transaction holds, so each transaction is given here as its items in
\* ascending order without repetition; every matrix the encoder can produce
\* within the bounds is produced from such a list.
AddBasket ==
    /\ pc = "encode"
    /\ Len(transactions) < MaxTx
    /\ \E b \in SUBSET Items :
          /\ Cardinality(b) <= MaxCells - Cells(transactions)
          /\ transactions' = Append(transactions, sorted(b))
    /\ UNCHANGED <<appVars, min_support, min_confidence, columns_,
                   encoded_data, itemset_dict, support_dict, max_itemset,
                   frequent_items, rules, error, pc>>

MinerNext ==
    \/ AddBasket
    \/ EncodeStep
    \/ Mine
    \/ MineLevel
    \/ MineReturn

MinerSpec ==
    /\ Init
    /\ [][MinerNext]_vars
    /\ WF_vars(EncodeStep \/ Mine \/ MineLevel \/ MineReturn)

(***************************************************************************)
(* The Streamlit application: every interaction runs the script from the   *)
(* top with fresh variables; only the st.cache_data entry and the widget   *)
(* positions outlive a run.                                                *)
(***************************************************************************)
\* st.sidebar.slider("Minimum Support", 0.01, 0.1, 0.02, 0.01), hundredths.
SupportMin == 1
SupportMax == 10
SupportDefault == 2
SupportStep == 1

\* st.sidebar.slider("Minimum Confidence", 0.1, 1.0, 0.4, 0.05), hundredths.
ConfidenceMin == 10
ConfidenceMax == 100
ConfidenceDefault == 40
ConfidenceStep == 5

\* Mutant of SliderValues: the positions are counted from 0, not min_value.
SliderValuesFromZero(min_value, max_value, step) ==
    {k * step : k \in 0..(max_value \div step)}

\* The positions a slider can take: min_value + k * step up to max_value.
SliderValues(min_value, max_value, step) ==
    {min_value + k * step : k \in 0..((max_value - min_value) \div step)}

\* A coffee name is a number in 1..2*NItems: NItems + i is a spelling of
\* item i with upper-case letters.  str.lower():
lower(name) == IF name > NItems THEN name - NItems ELSE name

\* The body of load_data: read the file, lower-case the coffee_name column.
load_data(file) ==
    [i \in DOMAIN file |->
        [key |-> file[i].key, coffee_name |-> lower(file[i].coffee_name)]]

\* The coffee names of the rows of one (date, cash_type) group, in row order.
RECURSIVE GroupList(_, _)
GroupList(df, k) ==
    IF df = <<>> THEN <<>>
    ELSE (IF Head(df).key = k THEN <<Head(df).coffee_name>> ELSE <<>>)
            \o GroupList(Tail(df), k)

\* df.groupby(["date", "cash_type"])["coffee_name"].apply(list).tolist():
\* one list per group, the groups in sorted key order.
groupby(df) ==
    LET keys == sorted({df[i].key : i \in DOMAIN df})
    IN  [g \in DOMAIN keys |-> GroupList(df, keys[g])]

\* Files the application is run on: NFill orders of item 1, the first of
\* them with item 2 as well, followed by up to MaxTail further rows that add
\* item 2 to the second order or item 3, spelt in upper case, to the first.
NFill == 12
MaxTail == 1

BaseRows ==
    [i \in 1..NFill |-> [key |-> i, coffee_name |-> 1]]
        \o << [key |-> 1, coffee_name |-> 2] >>

TailRows ==
    { [key |-> 2, coffee_name |-> 2],
      [key |-> 1, coffee_name |-> NItems + 3] }

CsvFiles == {BaseRows \o tail : tail \in SeqsUpTo(TailRows, MaxTail)}

\* Mutant of StartRun: the results of the previous run are kept.
StartRunKeepingResults ==
    /\ transactions' = <<>>
    /\ min_support' = 0
    /\ min_confidence' = 0
    /\ columns_' = <<>>
    /\ encoded_data' = <<>>
    /\ itemset_dict' = <<>>
    /\ support_dict' = <<>>
    /\ max_itemset' = 0
    /\ error' = "none"
    /\ pc' = "load"
    /\ UNCHANGED <<frequent_items, rules>>

\* A new script run: no variable of the script is assigned yet.
StartRun ==
    /\ transactions' = <<>>
    /\ min_support' = 0
    /\ min_confidence' = 0
    /\ columns_' = <<>>
    /\ encoded_data' = <<>>
    /\ itemset_dict' = <<>>
    /\ support_dict' = <<>>
    /\ max_itemset' = 0
    /\ frequent_items' = {}
    /\ rules' = {}
    /\ error' = "none"
    /\ pc' = "load"

AppInit ==
    /\ csv = BaseRows
    /\ cache = <<>>
    /\ widget_support = SupportDefault
    /\ widget_confidence = ConfidenceDefault
    /\ transactions = <<>>
    /\ min_support = 0
    /\ min_confidence = 0
    /\ Blank
    /\ pc = "load"

scriptVars == <<transactions, min_support, min_confidence, columns_,
                encoded_data, itemset_dict, support_dict, max_itemset,
                frequent_items, rules, error>>

\* df = load_data() under @st.cache_data: the body runs on a cache miss only.
LoadData ==
    /\ pc = "load"
    /\ cache' = IF cache = <<>> THEN <<load_data(csv)>> ELSE cache
    /\ pc' = "sidebar"
    /\ UNCHANGED <<csv, widget_support, widget_confidence, scriptVars>>

\* min_support = st.sidebar.slider(...); min_confidence = st.sidebar.slider(...)
Sidebar ==
    /\ pc = "sidebar"
    /\ min_support' = widget_support
    /\ min_confidence' = widget_confidence
    /\ pc' = "group"
    /\ UNCHANGED <<appVars, transactions, columns_, encoded_data,
                   itemset_dict, support_dict, max_itemset, frequent_items,
                   rules, error>>

\* transactions = df.groupby(...)["coffee_name"].apply(list).tolist()
Transactions ==
    /\ pc = "group"
    /\ transactions' = groupby(cache[1])
    /\ pc' = "encode"
    /\ UNCHANGED <<appVars, min_support, min_confidence, columns_,
                   encoded_data, itemset_dict, support_dict, max_itemset,
                   frequent_items, rules, error>>

AppMine == Apriori(min_support) /\ UNCHANGED appVars
AppRules == AssociationRules(min_confidence) /\ UNCHANGED appVars

\* The user drags a slider: the script is run again.
MoveSupportSlider ==
    /\ \E v \in SliderValues(SupportMin, SupportMax, SupportStep) :
          /\ v # widget_support
          /\ widget_support' = v
    /\ StartRun
    /\ UNCHANGED <<csv, cache, widget_confidence>>

MoveConfidenceSlider ==
    /\ \E v \in SliderValues(ConfidenceMin, ConfidenceMax, ConfidenceStep) :
          /\ v # widget_confidence
          /\ widget_confidence' = v
    /\ StartRun
    /\ UNCHANGED <<csv, cache, widget_support>>

\* cafe_order_dataset.csv is replaced on disk.
EditCsv ==
    /\ \E file \in CsvFiles : file # csv /\ csv' = file
    /\ UNCHANGED <<cache, widget_support, widget_confidence, scriptVars, pc>>

\* The st.cache_data entry is cleared and the script is run again.
ClearCache ==
    /\ cache # <<>>
    /\ cache' = <<>>
    /\ StartRun
    /\ UNCHANGED <<csv, widget_support, widget_confidence>>

AppNext ==
    \/ LoadData
    \/ Sidebar
    \/ Transactions
    \/ EncodeStep
    \/ AppMine
    \/ MineLevel
    \/ MineReturn
    \/ AppRules
    \/ MoveSupportSlider
    \/ MoveConfidenceSlider
    \/ EditCsv
    \/ ClearCache

AppSpec == AppInit /\ [][AppNext]_vars

(***************************************************************************)
(* The rule generator over longer transaction lists: up to MaxRuleRows     *)
(* transactions over the first NRuleItems items, each given as its items   *)
(* in ascending order, mined at any of the min_support arguments, and the  *)
(* rules generated at any position of the application's confidence slider. *)
(***************************************************************************)
NRuleItems == 2
MaxRuleRows == 5

AddRuleBasket ==
    /\ pc = "encode"
    /\ Len(transactions) < MaxRuleRows
    /\ \E b \in SUBSET (1..NRuleItems) :
          transactions' = Append(transactions, sorted(b))
    /\ UNCHANGED <<appVars, min_support, min_confidence, columns_,
                   encoded_data, itemset_dict, support_dict, max_itemset,
                   frequent_items, rules, error, pc>>

GenerateRulesAtSlider ==
    \E t \in SliderValues(ConfidenceMin, ConfidenceMax, ConfidenceStep) :
        AssociationRules(t) /\ UNCHANGED appVars

RulesNext ==
    \/ AddRuleBasket
    \/ EncodeStep
    \/ Mine
    \/ MineLevel
    \/ MineReturn
    \/ GenerateRulesAtSlider

RulesSpec == Init /\ [][RulesNext]_vars

(***************************************************************************)
(* Reference definitions the properties are stated with: supports counted  *)
(* on the transaction list itself, itemsets as sets of items.              *)
(***************************************************************************)
Universe(X) == UNION {Range(X[t]) : t \in DOMAIN X}

SupportOf(X, I) ==
    <<Cardinality({t \in DOMAIN X : I \subseteq Range(X[t])}), Len(X)>>

ValidThreshold(t) == t \in 1..100

ExpectedFrequent(X, s) ==
    {[itemsets |-> I, support |-> SupportOf(X, I)] :
        I \in {I \in (SUBSET Universe(X)) \ {{}} :
                 SupportOf(X, I)[1] * 100 >= s * Len(X)}}

\* support(I) / support(A) >= t, the ratio taken exactly: both supports
\* are counts over the same number of rows.
ConfidenceMeets(sI, sA, t) == sI[1] * 100 >= t * sA[1]

ExpectedRules(X, df, t) ==
    {[antecedents |-> p[2], consequents |-> p[1] \ p[2],
      support |-> SupportOf(X, p[1]),
      antecedent_support |-> SupportOf(X, p[2]),
      consequent_support |-> SupportOf(X, p[1] \ p[2])] :
        p \in {p \in {row.itemsets : row \in df} \X (SUBSET Universe(X)) :
                 /\ Cardinality(p[1]) >= 2
                 /\ p[2] # {} /\ p[2] \subseteq p[1] /\ p[2] # p[1]
                 /\ ConfidenceMeets(SupportOf(X, p[1]), SupportOf(X, p[2]), t)}}

\* apriori has returned its DataFrame.
MinerReturned ==
    \/ pc \in {"rules", "done"}
    \/ pc = "error" /\ error \in {"ValueError: empty frame", "KeyError"}

(***************************************************************************)
(* C1: for min_support in (0,1] the miner returns exactly the non-empty    *)
(* itemsets over the universe whose support is >= min_support (inclusive), *)
(* each paired with its support.                                           *)
(***************************************************************************)
MinerExact ==
    (MinerReturned /\ ValidThreshold(min_support))
        => frequent_items = ExpectedFrequent(transactions, min_support)

\* A returned itemset whose support equals min_support, next to an itemset
\* that occurs in the data but lies below the threshold and is left out.
MinerExactWitness ==
    /\ MinerReturned
    /\ ValidThreshold(min_support)
    /\ \E row \in frequent_items :
          row.support[1] * 100 = min_support * row.support[2]
    /\ \E I \in (SUBSET Universe(transactions)) \ {{}} :
          /\ SupportOf(transactions, I)[1] > 0
          /\ I \notin {row.itemsets : row \in frequent_items}

(***************************************************************************)
(* C2: the rules returned are exactly the pairs (A, I \ A) with I a        *)
(* returned itemset of size >= 2, A a non-empty proper subset of I and     *)
(* support(I)/support(A) >= min_confidence; antecedent and consequent are  *)
(* non-empty, disjoint, and their union is a returned itemset.             *)
(* The code compares the binary64 quotient of the two supports: with five  *)
(* transactions, A in four of them and I in three, 0.6 / 0.8 is            *)
(* 0.7499999999999999 and the rule is left out at min_confidence 0.75.     *)
(***************************************************************************)
RulesExact ==
    pc = "done" =>
        /\ rules = ExpectedRules(transactions, frequent_items, min_confidence)
        /\ \A r \in rules :
              /\ r.antecedents # {} /\ r.consequents # {}
              /\ r.antecedents \cap r.consequents = {}
              /\ (r.antecedents \cup r.consequents)
                     \in {row.itemsets : row \in frequent_items}

(***************************************************************************)
(* C5: downward closure: every non-empty subset of a returned itemset is   *)
(* returned too, with a support at least as large.                         *)
(***************************************************************************)
DownwardClosure ==
    \A row \in frequent_items :
        \A S \in (SUBSET row.itemsets) \ {{}} :
            \E sub \in frequent_items :
                /\ sub.itemsets = S
                /\ sub.support[2] = row.support[2]
                /\ sub.support[1] >= row.support[1]

\* A returned 3-itemset one of whose subsets has a strictly larger support.
DownwardClosureWitness ==
    /\ MinerReturned
    /\ \E row \in frequent_items :
          /\ Cardinality(row.itemsets) = 3
          /\ \E sub \in frequent_items :
                /\ sub.itemsets \subseteq row.itemsets
                /\ sub.support[1] > row.support[1]

(***************************************************************************)
(* C6: every returned rule has support(antecedent) > 0, and so has every   *)
(* itemset the generator divides by: the confidence                        *)
(* support(I)/support(antecedent) is always defined and lies in (0,1].     *)
(***************************************************************************)
ConfidenceBound ==
    /\ \A row \in frequent_items : row.support[1] > 0 /\ row.support[2] > 0
    /\ error # "KeyError"
    /\ \A r \in rules :
          /\ r.antecedent_support[2] > 0
          /\ r.antecedent_support[1] > 0
          /\ r.support[1] > 0
          /\ r.support[1] <= r.antecedent_support[1]

\* Rules are returned, one of confidence 1 and one of confidence below 1.
ConfidenceBoundWitness ==
    /\ pc = "done"
    /\ \E r \in rules : r.support[1] = r.antecedent_support[1]
    /\ \E r \in rules : r.support[1] < r.antecedent_support[1]

(***************************************************************************)
(* C7: the encoder returns the distinct items once each in sorted order    *)
(* and a matrix with one row per transaction and one column per item,      *)
(* whose cell [t][i] is true iff item i occurs in transaction t.           *)
(***************************************************************************)
EncoderCorrect ==
    pc # "encode" =>
        /\ Range(columns_) = Universe(transactions)
        /\ Len(columns_) = Cardinality(Universe(transactions))
        /\ \A i, j \in DOMAIN columns_ : i < j => columns_[i] < columns_[j]
        /\ Len(encoded_data) = Len(transactions)
        /\ \A t \in DOMAIN encoded_data :
              /\ Len(encoded_data[t]) = Len(columns_)
              /\ \A i \in DOMAIN columns_ :
                    encoded_data[t][i] <=> columns_[i] \in Range(transactions[t])

\* An encoded list holding a transaction that repeats an item, a transaction
\* with no item, and a transaction whose items are not in sorted order.
EncoderCorrectWitness ==
    /\ pc = "apriori"
    /\ \E t \in DOMAIN transactions :
          \E i, j \in DOMAIN transactions[t] :
             i < j /\ transactions[t][i] = transactions[t][j]
    /\ \E t \in DOMAIN transactions : transactions[t] = <<>>
    /\ \E t \in DOMAIN transactions :
          \E i, j \in DOMAIN transactions[t] :
             i < j /\ transactions[t][i] > transactions[t][j]

(***************************************************************************)
(* C9: the level-wise miner terminates; it counts supports only for levels *)
(* up to the universe size, and never starts a pass for a level beyond the *)
(* universe size plus one, an empty universe excepted, for which it makes  *)
(* the one pass for level 2 that finds no candidate.                       *)
(***************************************************************************)
MinerTerminates ==
    /\ [](pc = "level" =>
            /\ max_itemset + 1 <= (IF columns_ = <<>> THEN 1 ELSE Len(columns_)) + 1
            /\ generate_new_combinations(itemset_dict[max_itemset]) # {}
                  => max_itemset + 1 <= Len(columns_))
    /\ <>(pc \notin {"encode", "apriori", "level"})

\* The miner has returned after finding a frequent itemset of every size up
\* to the universe size, so its last pass was level universe size plus one.
MinerTerminatesWitness ==
    /\ pc = "rules"
    /\ Len(columns_) = NItems
    /\ max_itemset = Len(columns_)

\* C9 as stated: no pass for a level beyond the universe size plus one.
LevelWithinUniversePlusOne ==
    pc = "level" => max_itemset + 1 <= Len(columns_) + 1

(***************************************************************************)
(* C3 as stated: a min_support outside (0,1] ends the miner's call in an   *)
(* error raised at its start, and no itemsets and no rules are returned.   *)
(***************************************************************************)
InvalidSupportRejected ==
    (pc \notin {"encode", "apriori"} /\ ~ValidThreshold(min_support))
        => /\ pc = "error"
           /\ error = "ValueError: min_support"
           /\ frequent_items = {}
           /\ rules = {}

(***************************************************************************)
(* C4 as stated: on an empty transaction list, and whenever the miner      *)
(* returns no itemsets, the pipeline ends without an error and the rule    *)
(* generator returns an empty collection.                                  *)
(***************************************************************************)
EmptyResultNoError ==
    /\ (transactions = <<>> /\ pc \notin {"encode", "apriori"}
           /\ ValidThreshold(min_support))
          => /\ columns_ = <<>> /\ encoded_data = <<>> /\ frequent_items = {}
             /\ error = "none"
    /\ (MinerReturned /\ ValidThreshold(min_support) /\ frequent_items = {})
          => /\ error = "none"
             /\ pc = "done" => rules = {}

(***************************************************************************)
(* C8: at every point of every run of the application, whatever slider     *)
(* moves, file changes and cache clearings came before, the itemsets and   *)
(* rules held are those of the run's own transactions and of the current   *)
(* slider positions, and nothing is held before the run has computed it.   *)
(***************************************************************************)
HeldResultsAreCurrent ==
    /\ pc \notin {"load", "sidebar"} =>
          /\ min_support = widget_support
          /\ min_confidence = widget_confidence
    /\ frequent_items =
          IF MinerReturned
          THEN ExpectedFrequent(transactions, widget_support)
          ELSE {}
    /\ rules =
          IF pc = "done"
          THEN RuleRows(ExpectedFrequent(transactions, widget_support),
                        widget_confidence)
          ELSE {}

\* A run has ended with rules after both sliders were moved off their
\* defaults and the transaction set changed (an order with three items).
HeldResultsAreCurrentWitness ==
    /\ pc = "done"
    /\ rules # {}
    /\ widget_support # SupportDefault
    /\ widget_confidence # ConfidenceDefault
    /\ transactions # groupby(load_data(BaseRows))
    /\ \E row \in frequent_items : Cardinality(row.itemsets) = 3

(***************************************************************************)
(* C10: in every run of the application the thresholds handed to the core  *)
(* are slider positions: min_support in [0.01, 0.1] and min_confidence in  *)
(* [0.1, 1.0], both in (0,1], and the core never rejects a threshold.      *)
(***************************************************************************)
ThresholdsValid ==
    /\ pc \notin {"load", "sidebar"} =>
          /\ min_support \in SupportMin..SupportMax
          /\ min_confidence \in ConfidenceMin..ConfidenceMax
          /\ ValidThreshold(min_support)
          /\ ValidThreshold(min_confidence)
    /\ error # "ValueError: min_support"

\* The miner is about to be called with the support slider at its lowest and
\* the confidence slider at its highest position.
ThresholdsValidWitness ==
    /\ pc = "apriori"
    /\ min_support = SupportMin
    /\ min_confidence = ConfidenceMax

====
